---- MODULE Spec2Model ----
(***************************************************************************)
(* Cloud descriptor ingestion of despoticir (src/despoticir/src/cloud.rs). *)
(*                                                                         *)
(* Cloud::new builds a zeroed Cloud and, when a file name is given, calls  *)
(* Cloud::read on it.  The body of Cloud::read is the algorithm written    *)
(* out at cloud.rs:103-412.  The Rust file carries that text as comments,  *)
(* not yet as statements: this is a model of the algorithm as written,     *)
(* followed statement by statement, with the string semantics of the       *)
(* language it is written in (split, strip, upper, float, slicing,         *)
(* exceptions).  An exception that leaves read leaves Cloud::new before it *)
(* returns its cloud.  Composition, DustProp, Radiation, Emitter and       *)
(* addEmitter are outside the file; what the model needs of them is taken  *)
(* from the specification.                                                 *)
(*                                                                         *)
(* Text is a sequence of one-character strings.  Numbers are fixed point,  *)
(* in hundredths (1.0 is 100); the literals of the model are multiples of  *)
(* 0.25, for which the floating-point sums of the source are exact.        *)
(***************************************************************************)
EXTENDS Integers, Sequences, FiniteSets, TLC

(***************************************************************************)
(* Bounds                                                                  *)
(***************************************************************************)
MaxLines == 2

(***************************************************************************)
(* String primitives                                                       *)
(***************************************************************************)
WS == {" ", "\t", "\n", "\r"}

Digits == <<"0", "1", "2", "3", "4", "5", "6", "7", "8", "9">>

LowerChars == <<"a", "b", "c", "d", "e", "f", "g", "h", "i", "j", "k", "l", "m",
                "n", "o", "p", "q", "r", "s", "t", "u", "v", "w", "x", "y", "z">>

UpperChars == <<"A", "B", "C", "D", "E", "F", "G", "H", "I", "J", "K", "L", "M",
                "N", "O", "P", "Q", "R", "S", "T", "U", "V", "W", "X", "Y", "Z">>

UpperChar(c) ==
    IF \E k \in 1..26 : LowerChars[k] = c
    THEN UpperChars[CHOOSE k \in 1..26 : LowerChars[k] = c]
    ELSE c

\* s.upper()
Upper(s) == [k \in 1..Len(s) |-> UpperChar(s[k])]

SetMin(S) == CHOOSE x \in S : \A y \in S : x <= y

SetMax(S) == CHOOSE x \in S : \A y \in S : x >= y

\* s.strip()
Strip(s) ==
    LET keep == {k \in 1..Len(s) : s[k] \notin WS}
    IN IF keep = {} THEN <<>> ELSE SubSeq(s, SetMin(keep), SetMax(keep))

\* s[n:]
DropFirst(s, n) == SubSeq(s, n + 1, Len(s))

\* s[0:n]
TakeFirst(s, n) == SubSeq(s, 1, IF n < Len(s) THEN n ELSE Len(s))

RECURSIVE Split(_, _)
\* s.split(sep) for a one-character separator: every occurrence splits
Split(s, sep) ==
    LET hits == {k \in 1..Len(s) : s[k] = sep}
    IN IF hits = {} THEN <<s>>
       ELSE LET k == SetMin(hits)
            IN <<SubSeq(s, 1, k - 1)>> \o Split(DropFirst(s, k), sep)

RECURSIVE SplitWs(_)
\* s.split(): split on runs of whitespace, no empty tokens
SplitWs(s) ==
    LET body == {k \in 1..Len(s) : s[k] \notin WS}
    IN IF body = {} THEN <<>>
       ELSE LET b == SetMin(body)
                stops == {k \in b..Len(s) : s[k] \in WS}
                e == IF stops = {} THEN Len(s) ELSE SetMin(stops) - 1
            IN <<SubSeq(s, b, e)>> \o SplitWs(DropFirst(s, e))

IsDigit(c) == \E k \in 1..10 : Digits[k] = c

DigitVal(c) == (CHOOSE k \in 1..10 : Digits[k] = c) - 1

RECURSIVE DecVal(_)
DecVal(s) == IF s = <<>> THEN 0 ELSE 10 * DecVal(SubSeq(s, 1, Len(s) - 1)) + DigitVal(s[Len(s)])

Scale == 100

\* float(s): the number literals of the model have the form digits[.digits]
\* with at most two decimals; its other value texts ("x") are not numbers,
\* and float raises ValueError on them
FloatOk(s) ==
    LET t == Strip(s)
        parts == Split(t, ".")
    IN /\ Len(parts) \in {1, 2}
       /\ parts[1] # <<>>
       /\ \A k \in 1..Len(parts[1]) : IsDigit(parts[1][k])
       /\ Len(parts) = 2 =>
            /\ Len(parts[2]) <= 2
            /\ \A k \in 1..Len(parts[2]) : IsDigit(parts[2][k])

Float(s) ==
    LET t == Strip(s)
        parts == Split(t, ".")
        frac == IF Len(parts) = 2 THEN parts[2] ELSE <<>>
    IN Scale * DecVal(parts[1])
         + (IF Len(frac) = 1 THEN 10 * DecVal(frac) ELSE DecVal(frac))

(***************************************************************************)
(* Data model: the Cloud struct (cloud.rs:5-36).  Scalar fields of the     *)
(* cloud and of its composition, dust and radiation sub-states are kept in *)
(* one function from field name to number.                                 *)
(***************************************************************************)
\* an absent number: None, or a collaborator field nothing has assigned
Unset == 0 - 1

CloudFields == {"nH", "colDen", "sigmaNT", "dVdr", "Tg", "Td"}

DustFields == {"dust.alphaGD", "dust.sigma10", "dust.sigmaPE", "dust.sigmaISRF",
               "dust.Zd", "dust.beta"}

RadFields == {"rad.TCMB", "rad.TradDust", "rad.fdDilute", "rad.ionRate", "rad.chi"}

AbundanceFields == {"comp.xHI", "comp.xpH2", "comp.xoH2", "comp.xH2", "comp.xHe",
                    "comp.xe", "comp.xHplus"}

CompFields == AbundanceFields \cup {"comp.H2OPR"}

FieldNames == CloudFields \cup DustFields \cup RadFields \cup CompFields

\* the derived quantities of the composition, false until computed
NoDerived == [mu |-> FALSE, muH |-> FALSE, qIon |-> FALSE, cv |-> FALSE]

\* HashMap::new()
NoEmitters == <<>>

\* a Composition before any directive: abundances 0, ortho/para ratio None
CompositionInit(name) == IF name = "comp.H2OPR" THEN Unset ELSE 0

\* variant: the struct literal does not take the noWarn argument
EmptyCloudFlagDropped(noWarn) ==
    [f |-> [name \in FieldNames |->
              IF name \in CloudFields THEN 0
              ELSE IF name \in CompFields THEN CompositionInit(name)
              ELSE Unset],
     derived |-> NoDerived,
     emitters |-> NoEmitters,
     chemnetwork |-> "None",
     noWarn |-> FALSE]

\* the struct literal of Cloud::new
EmptyCloud(noWarn) ==
    [f |-> [name \in FieldNames |->
              IF name \in CloudFields THEN 0
              ELSE IF name \in CompFields THEN CompositionInit(name)
              ELSE Unset],
     derived |-> NoDerived,
     emitters |-> NoEmitters,
     chemnetwork |-> "None",
     noWarn |-> noWarn]

(***************************************************************************)
(* Errors.  despoticError carries a message; the message texts of the      *)
(* source are the error kinds.  site is the line of cloud.rs that raises.  *)
(***************************************************************************)
MsgOpen == "cannot open file"

\* missing '=', empty value, and wrong EMITTER token count share this text
MsgParseLine == "Error parsing input line"

MsgEmitterToken == "unrecognized token in line"

MsgKeyword == "unrecognized token in file"

MsgHydrogen == "total hydrogen abundance xHI + xH+ + 2 xH2 != 1"

\* exceptions of the language runtime, not despoticError
IndexError == "IndexError"

ValueError == "ValueError"

NoErr == [msg |-> "", arg |-> <<>>, site |-> 0]

Err(msg, arg, site) == [msg |-> msg, arg |-> arg, site |-> site]

\* result of one step of read: the cloud, the error raised, the text printed
Res(c, err, out) == [cloud |-> c, err |-> err, out |-> out]

(***************************************************************************)
(* Keyword dispatch (cloud.rs:137-309), in the order of the elif chain     *)
(***************************************************************************)
ScalarKeywords ==
    <<
        [kw |-> <<"N", "H">>,
         field |-> "nH", msg |-> "Setting nH", site |-> 140],
        [kw |-> <<"C", "O", "L", "D", "E", "N">>,
         field |-> "colDen", msg |-> "Setting column density", site |-> 146],
        [kw |-> <<"S", "I", "G", "M", "A", "N", "T">>,
         field |-> "sigmaNT", msg |-> "Setting sigmaNT", site |-> 153],
        [kw |-> <<"D", "V", "D", "R">>,
         field |-> "dVdr", msg |-> "Setting dVdr", site |-> 160],
        [kw |-> <<"T", "G">>,
         field |-> "Tg", msg |-> "Setting Tg", site |-> 167],
        [kw |-> <<"T", "D">>,
         field |-> "Td", msg |-> "Setting Td", site |-> 173],
        [kw |-> <<"A", "L", "P", "H", "A", "G", "D">>,
         field |-> "dust.alphaGD", msg |-> "Setting alpha_GD", site |-> 179],
        [kw |-> <<"S", "I", "G", "M", "A", "D", "1", "0">>,
         field |-> "dust.sigma10", msg |-> "Setting sigma_d,10", site |-> 187],
        [kw |-> <<"S", "I", "G", "M", "A", "D", "P", "E">>,
         field |-> "dust.sigmaPE", msg |-> "Setting sigma_d,PE", site |-> 195],
        [kw |-> <<"S", "I", "G", "M", "A", "D", "I", "S", "R", "F">>,
         field |-> "dust.sigmaISRF", msg |-> "Setting sigma_d,ISRF", site |-> 203],
        [kw |-> <<"Z", "D", "U", "S", "T">>,
         field |-> "dust.Zd", msg |-> "Setting Z'_d", site |-> 211],
        [kw |-> <<"B", "E", "T", "A", "D", "U", "S", "T">>,
         field |-> "dust.beta", msg |-> "Setting beta_dust", site |-> 218],
        [kw |-> <<"X", "H", "I">>,
         field |-> "comp.xHI", msg |-> "Setting xHI", site |-> 224],
        [kw |-> <<"X", "P", "H", "2">>,
         field |-> "comp.xpH2", msg |-> "Setting xpH2", site |-> 230],
        [kw |-> <<"X", "O", "H", "2">>,
         field |-> "comp.xoH2", msg |-> "Setting xoH2", site |-> 236],
        [kw |-> <<"H", "2", "O", "P", "R">>,
         field |-> "comp.H2OPR", msg |-> "Setting H2 ortho-para ratio", site |-> 242],
        [kw |-> <<"X", "H", "2">>,
         field |-> "comp.xH2", msg |-> "", site |-> 249],
        [kw |-> <<"X", "H", "E">>,
         field |-> "comp.xHe", msg |-> "Setting xHe", site |-> 259],
        [kw |-> <<"X", "E">>,
         field |-> "comp.xe", msg |-> "Setting xe", site |-> 265],
        [kw |-> <<"X", "H", "+">>,
         field |-> "comp.xe", msg |-> "Setting xH+", site |-> 271],
        [kw |-> <<"T", "C", "M", "B">>,
         field |-> "rad.TCMB", msg |-> "Setting T_CMB", site |-> 277],
        [kw |-> <<"T", "R", "A", "D", "D", "U", "S", "T">>,
         field |-> "rad.TradDust", msg |-> "Setting T_radDust", site |-> 283],
        [kw |-> <<"R", "A", "D", "D", "U", "T", "D", "I", "L", "U", "T", "I", "O", "N">>,
         field |-> "rad.fdDilute", msg |-> "Setting radDust dilution factor", site |-> 290],
        [kw |-> <<"I", "O", "N", "R", "A", "T", "E">>,
         field |-> "rad.ionRate", msg |-> "Setting primary ionization rate", site |-> 297],
        [kw |-> <<"C", "H", "I">>,
         field |-> "rad.chi", msg |-> "Setting chi", site |-> 304]
    >>

KwEmitter == <<"E", "M", "I", "T", "T", "E", "R">>

KwEnergySkip == <<"E", "N", "E", "R", "G", "Y", "S", "K", "I", "P">>

KwExtrapolate == <<"E", "X", "T", "R", "A", "P", "O", "L", "A", "T", "E">>

KwNoExtrap == <<"N", "O", "E", "X", "T", "R", "A", "P">>

KwFile == <<"F", "I", "L", "E", ":">>

KwUrl == <<"U", "R", "L", ":">>

\* the default ortho/para ratio, 0.25
DefaultH2OPR == 25

\* variant: XH+ assigns the ionized-hydrogen abundance
TargetFieldIonized(kw) ==
    IF kw.kw = <<"X", "H", "+">> THEN "comp.xHplus" ELSE kw.field

\* the field a keyword's branch assigns
TargetField(kw) == kw.field

\* variant: XH2 resets the ratio to the default at every occurrence
RatioMissingAlways(c) == TRUE

\* if self.comp.H2OPR is None
RatioMissing(c) == c.f["comp.H2OPR"] = Unset

\* variant: the warning is printed in verbose mode only
WarnOutIfVerbose(defaulted, verbose) ==
    IF defaulted /\ verbose
    THEN <<"Warning: H2 OPR unspecified, assuming 0.25">>
    ELSE <<>>

\* the print that follows the default, outside of `if verbose`
WarnOut(defaulted, verbose) ==
    IF defaulted
    THEN <<"Warning: H2 OPR unspecified, assuming 0.25">>
    ELSE <<>>

\* self.<field> = float(linesplit2[0]); if verbose: print(...)
ScalarStep(c, k, value, verbose) ==
    LET kw == ScalarKeywords[k]
    IN IF ~FloatOk(value) THEN Res(c, Err(ValueError, value, kw.site), <<>>)
       ELSE LET c1 == [c EXCEPT !.f[TargetField(kw)] = Float(value)]
            IN IF kw.field = "comp.xH2"
               THEN LET defaulted == RatioMissing(c1)
                        c2 == IF defaulted
                              THEN [c1 EXCEPT !.f["comp.H2OPR"] = DefaultH2OPR]
                              ELSE c1
                    IN Res(c2, NoErr,
                           WarnOut(defaulted, verbose)
                           \o (IF verbose THEN <<"Setting xpH2", "Setting xoH2">>
                               ELSE <<>>))
               ELSE Res(c1, NoErr, IF verbose THEN <<kw.msg>> ELSE <<>>)

(***************************************************************************)
(* EMITTER directive (cloud.rs:309-379)                                    *)
(***************************************************************************)
NoText == [present |-> FALSE, val |-> <<>>]

SomeText(s) == [present |-> TRUE, val |-> s]

\* variant: the upper limit is off by one
TokenCountOkUpTo7(n) == n >= 2 /\ n <= 7

\* len(linesplit3) < 2 or len(linesplit3) > 6 does not hold
TokenCountOk(n) == n >= 2 /\ n <= 6

\* variant: the options start from the earlier declaration of the species
InitOptionsCarried(emitters, name) ==
    IF name \in DOMAIN emitters
    THEN [energySkip |-> emitters[name].energySkip, extrap |-> emitters[name].extrap,
          emitterFile |-> emitters[name].emitterFile,
          emitterURL |-> emitters[name].emitterURL, bad |-> FALSE, token |-> <<>>]
    ELSE [energySkip |-> FALSE, extrap |-> TRUE, emitterFile |-> NoText,
          emitterURL |-> NoText, bad |-> FALSE, token |-> <<>>]

\* energySkip=False, extrap=True, emitterFile=None, emitterURL=None
InitOptions(emitters, name) ==
    [energySkip |-> FALSE, extrap |-> TRUE, emitterFile |-> NoText,
     emitterURL |-> NoText, bad |-> FALSE, token |-> <<>>]

\* variant: EXTRAPOLATE switches extrapolation back on
ScanTokenExtrapolateSets(opts, token) ==
    LET t == Strip(Upper(token))
    IN IF t = KwEnergySkip THEN [opts EXCEPT !.energySkip = TRUE]
       ELSE IF t = KwExtrapolate THEN [opts EXCEPT !.extrap = TRUE]
       ELSE IF t = KwNoExtrap THEN [opts EXCEPT !.extrap = FALSE]
       ELSE IF TakeFirst(t, 5) = KwFile
            THEN [opts EXCEPT !.emitterFile = SomeText(Strip(DropFirst(token, 5)))]
       ELSE IF TakeFirst(t, 4) = KwUrl
            THEN [opts EXCEPT !.emitterURL = SomeText(Strip(DropFirst(token, 4)))]
       ELSE [opts EXCEPT !.bad = TRUE, !.token = Strip(token)]

\* variant: a token that matches no option is passed over
ScanTokenUnknownPassed(opts, token) ==
    LET t == Strip(Upper(token))
    IN IF t = KwEnergySkip THEN [opts EXCEPT !.energySkip = TRUE]
       ELSE IF t = KwExtrapolate THEN opts
       ELSE IF t = KwNoExtrap THEN [opts EXCEPT !.extrap = FALSE]
       ELSE IF TakeFirst(t, 5) = KwFile
            THEN [opts EXCEPT !.emitterFile = SomeText(Strip(DropFirst(token, 5)))]
       ELSE IF TakeFirst(t, 4) = KwUrl
            THEN [opts EXCEPT !.emitterURL = SomeText(Strip(DropFirst(token, 4)))]
       ELSE opts

\* one pass of the loop body over an option token
ScanToken(opts, token) ==
    LET t == Strip(Upper(token))
    IN IF t = KwEnergySkip THEN [opts EXCEPT !.energySkip = TRUE]
       ELSE IF t = KwExtrapolate THEN opts
       ELSE IF t = KwNoExtrap THEN [opts EXCEPT !.extrap = FALSE]
       ELSE IF TakeFirst(t, 5) = KwFile
            THEN [opts EXCEPT !.emitterFile = SomeText(Strip(DropFirst(token, 5)))]
       ELSE IF TakeFirst(t, 4) = KwUrl
            THEN [opts EXCEPT !.emitterURL = SomeText(Strip(DropFirst(token, 4)))]
       ELSE [opts EXCEPT !.bad = TRUE, !.token = Strip(token)]

RECURSIVE ScanOptions(_, _)
\* for token in linesplit3[2:], stopping at the first raise
ScanOptions(opts, tokens) ==
    IF tokens = <<>> \/ opts.bad THEN opts
    ELSE ScanOptions(ScanToken(opts, Head(tokens)), Tail(tokens))

\* the emitter built by addEmitter
EmitterConfig(name, abundance, energySkip, extrap, emitterFile, emitterURL) ==
    [name |-> name, abundance |-> abundance, energySkip |-> energySkip,
     extrap |-> extrap, emitterFile |-> emitterFile, emitterURL |-> emitterURL]

\* self.emitters[name] = emitter(...)
AddEmitter(c, e) ==
    [c EXCEPT !.emitters =
        [n \in (DOMAIN c.emitters) \cup {e.name} |->
            IF n = e.name THEN e ELSE c.emitters[n]]]

EmitterStep(c, value, line, verbose) ==
    LET linesplit3 == SplitWs(value)
        n == Len(linesplit3)
        msg == IF verbose THEN <<"Adding emitter">> ELSE <<>>
    IN IF ~TokenCountOk(n) THEN Res(c, Err(MsgParseLine, line, 322), <<>>)
       ELSE IF n = 2
       THEN IF ~FloatOk(linesplit3[2])
            THEN Res(c, Err(ValueError, linesplit3[2], 332), msg)
            ELSE Res(AddEmitter(c, EmitterConfig(linesplit3[1], Float(linesplit3[2]),
                                                 FALSE, TRUE, NoText, NoText)),
                     NoErr, msg)
       ELSE LET opts == ScanOptions(InitOptions(c.emitters, linesplit3[1]),
                                    SubSeq(linesplit3, 3, n))
            IN IF opts.bad
               THEN Res(c, Err(MsgEmitterToken, opts.token, 356), <<>>)
               ELSE IF ~FloatOk(linesplit3[2])
               THEN Res(c, Err(ValueError, linesplit3[2], 375), msg)
               ELSE Res(AddEmitter(c, EmitterConfig(linesplit3[1], Float(linesplit3[2]),
                                                    opts.energySkip, opts.extrap,
                                                    opts.emitterFile, opts.emitterURL)),
                        NoErr, msg)

(***************************************************************************)
(* One iteration of `for line in fp` (cloud.rs:119-385)                    *)
(***************************************************************************)
\* line == '\n'
IsBlank(line) == line = <<"\n">>

\* variant: only a '#' in the first column starts a comment
IsCommentFirstColumn(line) == line[1] = "#"

\* line.strip()[0] == "#"; the subscript needs a non-empty strip()
IsComment(line) == Strip(line)[1] = "#"

\* variant: the key is matched as written, trimmed only
KeyOfAsWritten(linesplit) == Strip(linesplit[1])

\* linesplit[0].upper().strip()
KeyOf(linesplit) == Strip(Upper(linesplit[1]))

\* variant: a line with an unknown keyword is passed over
UnknownKeywordPassed(c, linesplit) == Res(c, NoErr, <<>>)

\* the final else of the chain
UnknownKeyword(c, linesplit) ==
    Res(c, Err(MsgKeyword, Strip(linesplit[1]), 384), <<>>)

Dispatch(c, linesplit, value, line, verbose) ==
    LET key == KeyOf(linesplit)
        hits == {k \in 1..Len(ScalarKeywords) : ScalarKeywords[k].kw = key}
    IN IF hits # {} THEN ScalarStep(c, SetMin(hits), value, verbose)
       ELSE IF key = KwEmitter THEN EmitterStep(c, value, line, verbose)
       ELSE UnknownKeyword(c, linesplit)

LineStep(c, line, verbose) ==
    IF IsBlank(line) THEN Res(c, NoErr, <<>>)
    ELSE IF Strip(line) = <<>> THEN Res(c, Err(IndexError, line, 124), <<>>)
    ELSE IF IsComment(line) THEN Res(c, NoErr, <<>>)
    ELSE LET linesplit == Split(line, "=")
         IN IF Len(linesplit) < 2 THEN Res(c, Err(MsgParseLine, line, 130), <<>>)
            ELSE IF linesplit[2] = <<>> THEN Res(c, Err(MsgParseLine, line, 132), <<>>)
            ELSE LET linesplit2 == Split(linesplit[2], "#")
                 IN Dispatch(c, linesplit, linesplit2[1], line, verbose)

(***************************************************************************)
(* After the loop (cloud.rs:387-412)                                       *)
(***************************************************************************)
\* self.comp.xHI + self.comp.xHplus + 2.0*(self.comp.xpH2 + self.comp.xoH2)
HydrogenSum(c) ==
    c.f["comp.xHI"] + c.f["comp.xHplus"] + 2 * (c.f["comp.xpH2"] + c.f["comp.xoH2"])

\* the number 1 of the check, in fixed point
One == Scale

\* variant: sums below 1 pass
HydrogenOkLax(c) == HydrogenSum(c) <= One

\* the negation of the condition of the check at cloud.rs:391-392
HydrogenOk(c) == HydrogenSum(c) = One

\* variant: a temperature of 0 counts as set
NeedsCvFromZero(c) == c.f["Tg"] >= 0

\* self.comp.computeDerived(self.nH)
ComputeDerivedOn(c) ==
    [c EXCEPT !.derived.mu = TRUE, !.derived.muH = TRUE, !.derived.qIon = TRUE]

\* if self.Tg > 0.0
NeedsCv(c) == c.f["Tg"] > 0

\* self.comp.computeCv(self.Tg)
ComputeCvOn(c) == [c EXCEPT !.derived.cv = TRUE]

\* variant: the summary prints the heat capacity whatever Tg is
SummaryOutAlwaysCv(c, verbose) ==
    IF ~verbose THEN <<>>
    ELSE <<"Derived quantities", "mean mass per particle", "mean mass per H",
           "energy added per ionization", "c_v/(k_B n_H mu_H)">>

\* the verbose summary of the derived quantities
SummaryOut(c, verbose) ==
    IF ~verbose THEN <<>>
    ELSE <<"Derived quantities", "mean mass per particle", "mean mass per H",
           "energy added per ionization">>
         \o (IF c.f["Tg"] > 0 THEN <<"c_v/(k_B n_H mu_H)">> ELSE <<>>)

\* variant: an unknown keyword is reported and the loop goes on
AbortsButKeyword(e) == e # NoErr /\ e.msg # MsgKeyword

\* an error raised in read ends the call
Aborts(e) == e # NoErr

RECURSIVE RunLines(_, _, _)
\* the whole loop over the lines of a file, as one function
RunLines(c, lines, verbose) ==
    IF lines = <<>> THEN Res(c, NoErr, <<>>)
    ELSE LET r == LineStep(c, Head(lines), verbose)
         IN IF Aborts(r.err) THEN r
            ELSE LET rest == RunLines(r.cloud, Tail(lines), verbose)
                 IN Res(rest.cloud, rest.err, r.out \o rest.out)

\* read on an opened file, as one function
Ingest(c, lines, verbose) ==
    LET r == RunLines(c, lines, verbose)
    IN IF Aborts(r.err) THEN r
       ELSE IF ~HydrogenOk(r.cloud)
       THEN Res(r.cloud, Err(MsgHydrogen, <<>>, 393), r.out)
       ELSE LET d == ComputeDerivedOn(r.cloud)
                e == IF NeedsCv(d) THEN ComputeCvOn(d) ELSE d
            IN Res(e, NoErr, r.out \o SummaryOut(e, verbose))

(***************************************************************************)
(* Descriptors: the files read.  Every line ends with its terminator,      *)
(* except possibly the last line of a file.                                *)
(***************************************************************************)
\* lines of the general descriptors
LinePool ==
    <<
        \* 1: "\n"
        <<"\n">>,
        \* 2: "  #c=1\n"
        <<" ", " ", "#", "c", "=", "1", "\n">>,
        \* 3: "XHI = 1\n"
        <<"X", "H", "I", " ", "=", " ", "1", "\n">>,
        \* 4: "XHI = 0.5\n"
        <<"X", "H", "I", " ", "=", " ", "0", ".", "5", "\n">>,
        \* 5: "XPH2 = 0.25\n"
        <<"X", "P", "H", "2", " ", "=", " ", "0", ".", "2", "5", "\n">>,
        \* 6: "TG = 10\n"
        <<"T", "G", " ", "=", " ", "1", "0", "\n">>,
        \* 7: "TG = 0\n"
        <<"T", "G", " ", "=", " ", "0", "\n">>,
        \* 8: "FOO = 3\n"
        <<"F", "O", "O", " ", "=", " ", "3", "\n">>,
        \* 9: "BAD\n"
        <<"B", "A", "D", "\n">>,
        \* 10: "XHI = x\n"
        <<"X", "H", "I", " ", "=", " ", "x", "\n">>,
        \* 11: "EMITTER = CO 1\n"
        <<"E", "M", "I", "T", "T", "E", "R", " ", "=", " ", "C", "O", " ", "1", "\n">>,
        \* 12: "EMITTER = CO 1 BOGUS\n"
        <<"E", "M", "I", "T", "T", "E", "R", " ", "=", " ", "C", "O", " ", "1", " ", "B", "O", "G", "U", "S", "\n">>
    >>

\* lines of the EMITTER descriptors
EmitterPool ==
    <<
        \* 1: "XHI = 1\n"
        <<"X", "H", "I", " ", "=", " ", "1", "\n">>,
        \* 2: "EMITTER = CO 1\n"
        <<"E", "M", "I", "T", "T", "E", "R", " ", "=", " ", "C", "O", " ", "1", "\n">>,
        \* 3: "emitter = co 0.5\n"
        <<"e", "m", "i", "t", "t", "e", "r", " ", "=", " ", "c", "o", " ", "0", ".", "5", "\n">>,
        \* 4: "EMITTER = CO 0.5 energyskip NoExtrap file:a URL:u\n"
        <<"E", "M", "I", "T", "T", "E", "R", " ", "=", " ", "C", "O", " ", "0", ".", "5", " ", "e", "n", "e", "r", "g", "y", "s", "k", "i", "p", " ", "N", "o", "E", "x", "t", "r", "a", "p", " ", "f", "i", "l", "e", ":", "a", " ", "U", "R", "L", ":", "u", "\n">>,
        \* 5: "EMITTER = CO 1 FILE:a FILE:b\n"
        <<"E", "M", "I", "T", "T", "E", "R", " ", "=", " ", "C", "O", " ", "1", " ", "F", "I", "L", "E", ":", "a", " ", "F", "I", "L", "E", ":", "b", "\n">>,
        \* 6: "EMITTER = CO 1 NOEXTRAP EXTRAPOLATE\n"
        <<"E", "M", "I", "T", "T", "E", "R", " ", "=", " ", "C", "O", " ", "1", " ", "N", "O", "E", "X", "T", "R", "A", "P", " ", "E", "X", "T", "R", "A", "P", "O", "L", "A", "T", "E", "\n">>,
        \* 7: "EMITTER = HCN 0.25 URL:u Extrapolate\n"
        <<"E", "M", "I", "T", "T", "E", "R", " ", "=", " ", "H", "C", "N", " ", "0", ".", "2", "5", " ", "U", "R", "L", ":", "u", " ", "E", "x", "t", "r", "a", "p", "o", "l", "a", "t", "e", "\n">>
    >>

\* lines of the descriptors with refused EMITTER lines
EmitterErrorPool ==
    <<
        \* 1: "XHI = 1\n"
        <<"X", "H", "I", " ", "=", " ", "1", "\n">>,
        \* 2: "EMITTER = CO 1\n"
        <<"E", "M", "I", "T", "T", "E", "R", " ", "=", " ", "C", "O", " ", "1", "\n">>,
        \* 3: "EMITTER = CO 0.5 ENERGYSKIP NOEXTRAP FILE:a URL:u\n"
        <<"E", "M", "I", "T", "T", "E", "R", " ", "=", " ", "C", "O", " ", "0", ".", "5", " ", "E", "N", "E", "R", "G", "Y", "S", "K", "I", "P", " ", "N", "O", "E", "X", "T", "R", "A", "P", " ", "F", "I", "L", "E", ":", "a", " ", "U", "R", "L", ":", "u", "\n">>,
        \* 4: "EMITTER = CO 1 ENERGYSKIP BOGUS\n"
        <<"E", "M", "I", "T", "T", "E", "R", " ", "=", " ", "C", "O", " ", "1", " ", "E", "N", "E", "R", "G", "Y", "S", "K", "I", "P", " ", "B", "O", "G", "U", "S", "\n">>,
        \* 5: "EMITTER = CO 1 WRONG ENERGYSKIP BOGUS\n"
        <<"E", "M", "I", "T", "T", "E", "R", " ", "=", " ", "C", "O", " ", "1", " ", "W", "R", "O", "N", "G", " ", "E", "N", "E", "R", "G", "Y", "S", "K", "I", "P", " ", "B", "O", "G", "U", "S", "\n">>,
        \* 6: "EMITTER = CO x ENERGYSKIP\n"
        <<"E", "M", "I", "T", "T", "E", "R", " ", "=", " ", "C", "O", " ", "x", " ", "E", "N", "E", "R", "G", "Y", "S", "K", "I", "P", "\n">>,
        \* 7: "EMITTER = CO\n"
        <<"E", "M", "I", "T", "T", "E", "R", " ", "=", " ", "C", "O", "\n">>,
        \* 8: "EMITTER = \n"
        <<"E", "M", "I", "T", "T", "E", "R", " ", "=", " ", "\n">>,
        \* 9: "EMITTER = CO 1 ENERGYSKIP NOEXTRAP FILE:a URL:u EXTRAPOLATE\n"
        <<"E", "M", "I", "T", "T", "E", "R", " ", "=", " ", "C", "O", " ", "1", " ", "E", "N", "E", "R", "G", "Y", "S", "K", "I", "P", " ", "N", "O", "E", "X", "T", "R", "A", "P", " ", "F", "I", "L", "E", ":", "a", " ", "U", "R", "L", ":", "u", " ", "E", "X", "T", "R", "A", "P", "O", "L", "A", "T", "E", "\n">>
    >>

\* lines of the keyword descriptors
KeywordPool ==
    <<
        \* 1: "XHI = 1\n"
        <<"X", "H", "I", " ", "=", " ", "1", "\n">>,
        \* 2: "nh = 100.0 # d\n"
        <<"n", "h", " ", "=", " ", "1", "0", "0", ".", "0", " ", "#", " ", "d", "\n">>,
        \* 3: " Tg =10\n"
        <<" ", "T", "g", " ", "=", "1", "0", "\n">>,
        \* 4: "XH+ = 1\n"
        <<"X", "H", "+", " ", "=", " ", "1", "\n">>,
        \* 5: "XE = 1\n"
        <<"X", "E", " ", "=", " ", "1", "\n">>,
        \* 6: "raddutdilution = 1\n"
        <<"r", "a", "d", "d", "u", "t", "d", "i", "l", "u", "t", "i", "o", "n", " ", "=", " ", "1", "\n">>,
        \* 7: "FOO = 3\n"
        <<"F", "O", "O", " ", "=", " ", "3", "\n">>,
        \* 8: " foo=x\n"
        <<" ", "f", "o", "o", "=", "x", "\n">>,
        \* 9: "XH = 1\n"
        <<"X", "H", " ", "=", " ", "1", "\n">>,
        \* 10: "NHX = 1\n"
        <<"N", "H", "X", " ", "=", " ", "1", "\n">>,
        \* 11: " = 1\n"
        <<" ", "=", " ", "1", "\n">>,
        \* 12: "X HI = 1\n"
        <<"X", " ", "H", "I", " ", "=", " ", "1", "\n">>,
        \* 13: "RADDUSTDILUTION = 1\n"
        <<"R", "A", "D", "D", "U", "S", "T", "D", "I", "L", "U", "T", "I", "O", "N", " ", "=", " ", "1", "\n">>
    >>

\* lines of the descriptors with lines that are no directive
MalformedPool ==
    <<
        \* 1: "XHI = 1\n"
        <<"X", "H", "I", " ", "=", " ", "1", "\n">>,
        \* 2: "\n"
        <<"\n">>,
        \* 3: "# c\n"
        <<"#", " ", "c", "\n">>,
        \* 4: "BAD\n"
        <<"B", "A", "D", "\n">>,
        \* 5: "  \n"
        <<" ", " ", "\n">>,
        \* 6: "BAD # x\n"
        <<"B", "A", "D", " ", "#", " ", "x", "\n">>,
        \* 7: "XHI =\n"
        <<"X", "H", "I", " ", "=", "\n">>,
        \* 8: "TG = 10\n"
        <<"T", "G", " ", "=", " ", "1", "0", "\n">>,
        \* 9: "XHI ="
        <<"X", "H", "I", " ", "=">>
    >>

\* lines of the composition descriptors
CompositionPool ==
    <<
        \* 1: "XHI = 1\n"
        <<"X", "H", "I", " ", "=", " ", "1", "\n">>,
        \* 2: "XH2 = 0.5\n"
        <<"X", "H", "2", " ", "=", " ", "0", ".", "5", "\n">>,
        \* 3: "xh2 = 0.25\n"
        <<"x", "h", "2", " ", "=", " ", "0", ".", "2", "5", "\n">>,
        \* 4: "H2OPR = 3\n"
        <<"H", "2", "O", "P", "R", " ", "=", " ", "3", "\n">>,
        \* 5: "XH+ = 1\n"
        <<"X", "H", "+", " ", "=", " ", "1", "\n">>,
        \* 6: "XE = 0.5\n"
        <<"X", "E", " ", "=", " ", "0", ".", "5", "\n">>,
        \* 7: "TG = 10\n"
        <<"T", "G", " ", "=", " ", "1", "0", "\n">>,
        \* 8: "FOO = 3\n"
        <<"F", "O", "O", " ", "=", " ", "3", "\n">>,
        \* 9: "EMITTER = CO 1\n"
        <<"E", "M", "I", "T", "T", "E", "R", " ", "=", " ", "C", "O", " ", "1", "\n">>
    >>

\* lines of the descriptors of the cloud's own scalars
ScalarPool ==
    <<
        \* 1: "XHI = 1\n"
        <<"X", "H", "I", " ", "=", " ", "1", "\n">>,
        \* 2: "NH = 100.0\n"
        <<"N", "H", " ", "=", " ", "1", "0", "0", ".", "0", "\n">>,
        \* 3: "nh = 1\n"
        <<"n", "h", " ", "=", " ", "1", "\n">>,
        \* 4: " Nh = 0.5\n"
        <<" ", "N", "h", " ", "=", " ", "0", ".", "5", "\n">>,
        \* 5: "COLDEN = 1\n"
        <<"C", "O", "L", "D", "E", "N", " ", "=", " ", "1", "\n">>,
        \* 6: "sigmant = 0.25\n"
        <<"s", "i", "g", "m", "a", "n", "t", " ", "=", " ", "0", ".", "2", "5", "\n">>,
        \* 7: "DVDR = 1\n"
        <<"D", "V", "D", "R", " ", "=", " ", "1", "\n">>,
        \* 8: "Tg = 10\n"
        <<"T", "g", " ", "=", " ", "1", "0", "\n">>,
        \* 9: "TD = 10\n"
        <<"T", "D", " ", "=", " ", "1", "0", "\n">>,
        \* 10: "EMITTER = CO 1\n"
        <<"E", "M", "I", "T", "T", "E", "R", " ", "=", " ", "C", "O", " ", "1", "\n">>,
        \* 11: "XE = 1\n"
        <<"X", "E", " ", "=", " ", "1", "\n">>
    >>

\* lines of the descriptors with a second '=' or a trailing comment
ValuePool ==
    <<
        \* 1: "XHI = 1\n"
        <<"X", "H", "I", " ", "=", " ", "1", "\n">>,
        \* 2: "NH = 1\n"
        <<"N", "H", " ", "=", " ", "1", "\n">>,
        \* 3: "NH = 1 # c\n"
        <<"N", "H", " ", "=", " ", "1", " ", "#", " ", "c", "\n">>,
        \* 4: "XHI = 1 # a=b\n"
        <<"X", "H", "I", " ", "=", " ", "1", " ", "#", " ", "a", "=", "b", "\n">>,
        \* 5: "EMITTER = CO 1 URL:u\n"
        <<"E", "M", "I", "T", "T", "E", "R", " ", "=", " ", "C", "O", " ", "1", " ", "U", "R", "L", ":", "u", "\n">>,
        \* 6: "EMITTER = CO 1 URL:u=v\n"
        <<"E", "M", "I", "T", "T", "E", "R", " ", "=", " ", "C", "O", " ", "1", " ", "U", "R", "L", ":", "u", "=", "v", "\n">>,
        \* 7: "EMITTER = CO 1 FILE:a=b # c\n"
        <<"E", "M", "I", "T", "T", "E", "R", " ", "=", " ", "C", "O", " ", "1", " ", "F", "I", "L", "E", ":", "a", "=", "b", " ", "#", " ", "c", "\n">>,
        \* 8: "NH = 1 = 2\n"
        <<"N", "H", " ", "=", " ", "1", " ", "=", " ", "2", "\n">>
    >>

\* lines of the descriptors whose directives are swapped
OrderPool ==
    <<
        \* 1: "XHI = 1\n"
        <<"X", "H", "I", " ", "=", " ", "1", "\n">>,
        \* 2: "XH2 = 0.5\n"
        <<"X", "H", "2", " ", "=", " ", "0", ".", "5", "\n">>,
        \* 3: "H2OPR = 3\n"
        <<"H", "2", "O", "P", "R", " ", "=", " ", "3", "\n">>,
        \* 4: "XE = 0.5\n"
        <<"X", "E", " ", "=", " ", "0", ".", "5", "\n">>,
        \* 5: "XH+ = 1\n"
        <<"X", "H", "+", " ", "=", " ", "1", "\n">>,
        \* 6: "EMITTER = CO 1\n"
        <<"E", "M", "I", "T", "T", "E", "R", " ", "=", " ", "C", "O", " ", "1", "\n">>,
        \* 7: "EMITTER = HCN 0.5 NOEXTRAP\n"
        <<"E", "M", "I", "T", "T", "E", "R", " ", "=", " ", "H", "C", "N", " ", "0", ".", "5", " ", "N", "O", "E", "X", "T", "R", "A", "P", "\n">>
    >>

PoolSet(pool) == {pool[k] : k \in 1..Len(pool)}

Terminated(line) == line # <<>> /\ line[Len(line)] = "\n"

DescriptorsUpTo(pool, n) ==
    {d \in UNION {[1..m -> PoolSet(pool)] : m \in 0..n} :
        \A k \in 1..Len(d) : k < Len(d) => Terminated(d[k])}

Descriptors(pool) == DescriptorsUpTo(pool, MaxLines)

(***************************************************************************)
(* State                                                                   *)
(***************************************************************************)
VARIABLES
    desc,       \* the lines of the file named by file_name
    noWarnArg,  \* the noWarn argument of new
    held,       \* what the caller holds: <<>> or <<cloud>>
    entry,      \* the entry point of the call in progress: "new" or "read"
    verbose,    \* the verbose argument of the call
    self,       \* the cloud read works on
    pc,         \* position of the call
    i,          \* index of the next line of desc
    err,        \* the error raised, NoErr if none
    out,        \* the messages printed so far
    calls       \* the check and the composition computations invoked, in order

vars == <<desc, noWarnArg, held, entry, verbose, self, pc, i, err, out, calls>>

InitCall ==
    /\ noWarnArg = FALSE
    /\ held = <<>>
    /\ entry = "none"
    /\ verbose = FALSE
    /\ self = EmptyCloud(FALSE)
    /\ pc = "idle"
    /\ i = 1
    /\ err = NoErr
    /\ out = <<>>
    /\ calls = <<>>

InitWith(pool) == desc \in Descriptors(pool) /\ InitCall

Init == InitWith(LinePool)

InitEmitter == InitWith(EmitterPool)

InitEmitterError == InitWith(EmitterErrorPool)

InitKeyword == InitWith(KeywordPool)

InitMalformed == InitWith(MalformedPool)

InitComposition == InitWith(CompositionPool)

InitScalar == InitWith(ScalarPool)

InitValue == InitWith(ValuePool)

InitOrder == desc \in DescriptorsUpTo(OrderPool, MaxLines + 1) /\ InitCall

\* Cloud::new(None, noWarn, verbose)
NewEmpty ==
    /\ pc = "idle" /\ held = <<>>
    /\ \E noWarn \in BOOLEAN :
         noWarnArg' = noWarn /\ held' = <<EmptyCloud(noWarn)>>
    /\ UNCHANGED <<desc, entry, verbose, self, pc, i, err, out, calls>>

\* Cloud::new(Some(file_name), noWarn, verbose), up to the call of read
NewFromFile ==
    /\ pc = "idle" /\ held = <<>>
    /\ \E noWarn \in BOOLEAN :
         noWarnArg' = noWarn /\ self' = EmptyCloud(noWarn)
    /\ \E v \in BOOLEAN : verbose' = v
    /\ entry' = "new"
    /\ pc' = "open"
    /\ UNCHANGED <<desc, held, i, err, out, calls>>

\* cloud.read(file_name, verbose) on a cloud the caller holds
CallRead ==
    /\ pc = "idle" /\ held # <<>>
    /\ self' = held[1]
    /\ \E v \in BOOLEAN : verbose' = v
    /\ entry' = "read"
    /\ pc' = "open"
    /\ UNCHANGED <<desc, noWarnArg, held, i, err, out, calls>>

\* open the file: locally, else in the module directory, else fail
Open ==
    /\ pc = "open"
    /\ \E where \in {"local", "module_dir", "missing"} :
         IF where = "missing"
         THEN /\ err' = Err(MsgOpen, <<>>, 118)
              /\ pc' = "raise"
              /\ out' = out
         ELSE /\ err' = err
              /\ pc' = "line"
              /\ out' = IF where = "module_dir" /\ verbose
                        THEN out \o <<"Reading from file">> ELSE out
    /\ UNCHANGED <<desc, noWarnArg, held, entry, verbose, self, i, calls>>

\* one iteration of the loop
ReadLine ==
    /\ pc = "line" /\ i <= Len(desc)
    /\ LET r == LineStep(self, desc[i], verbose)
       IN /\ self' = r.cloud
          /\ out' = out \o r.out
          /\ err' = r.err
          /\ IF Aborts(r.err)
             THEN pc' = "raise" /\ i' = i
             ELSE pc' = "line" /\ i' = i + 1
    /\ UNCHANGED <<desc, noWarnArg, held, entry, verbose, calls>>

\* fp.close() and the hydrogen check
CheckHydrogen ==
    /\ pc = "line" /\ i > Len(desc)
    /\ calls' = Append(calls, [op |-> "check", arg |-> HydrogenSum(self)])
    /\ IF ~HydrogenOk(self)
       THEN err' = Err(MsgHydrogen, <<>>, 393) /\ pc' = "raise"
       ELSE err' = err /\ pc' = "derive"
    /\ UNCHANGED <<desc, noWarnArg, held, entry, verbose, self, i, out>>

ComputeDerived ==
    /\ pc = "derive"
    /\ self' = ComputeDerivedOn(self)
    /\ calls' = Append(calls, [op |-> "computeDerived", arg |-> self.f["nH"]])
    /\ pc' = "cv"
    /\ UNCHANGED <<desc, noWarnArg, held, entry, verbose, i, err, out>>

\* variant: the heat capacity is computed in verbose mode only
ComputeCvIfVerbose ==
    /\ pc = "cv"
    /\ IF NeedsCv(self) /\ verbose
       THEN /\ self' = ComputeCvOn(self)
            /\ calls' = Append(calls, [op |-> "computeCv", arg |-> self.f["Tg"]])
       ELSE UNCHANGED <<self, calls>>
    /\ pc' = "summary"
    /\ UNCHANGED <<desc, noWarnArg, held, entry, verbose, i, err, out>>

ComputeCv ==
    /\ pc = "cv"
    /\ IF NeedsCv(self)
       THEN /\ self' = ComputeCvOn(self)
            /\ calls' = Append(calls, [op |-> "computeCv", arg |-> self.f["Tg"]])
       ELSE UNCHANGED <<self, calls>>
    /\ pc' = "summary"
    /\ UNCHANGED <<desc, noWarnArg, held, entry, verbose, i, err, out>>

Summary ==
    /\ pc = "summary"
    /\ out' = out \o SummaryOut(self, verbose)
    /\ pc' = "return"
    /\ UNCHANGED <<desc, noWarnArg, held, entry, verbose, self, i, err, calls>>

\* variant: new hands its cloud to the caller also when read raised
HeldAfterRaiseKeep(e, h, c) == <<c>>

\* what the caller holds once an error has left the call: read works on the
\* caller's cloud in place; the cloud under construction in new is dropped
HeldAfterRaise(e, h, c) == IF e = "read" THEN <<c>> ELSE h

\* the error propagates to the caller
Raise ==
    /\ pc = "raise"
    /\ held' = HeldAfterRaise(entry, held, self)
    /\ pc' = "failed"
    /\ UNCHANGED <<desc, noWarnArg, entry, verbose, self, i, err, out, calls>>

\* read returns; new returns res
Return ==
    /\ pc = "return"
    /\ held' = <<self>>
    /\ pc' = "done"
    /\ UNCHANGED <<desc, noWarnArg, entry, verbose, self, i, err, out, calls>>

Next ==
    \/ NewEmpty
    \/ NewFromFile
    \/ CallRead
    \/ Open
    \/ ReadLine
    \/ CheckHydrogen
    \/ ComputeDerived
    \/ ComputeCv
    \/ Summary
    \/ Raise
    \/ Return

Spec == Init /\ [][Next]_vars

SpecEmitter == InitEmitter /\ [][Next]_vars

SpecEmitterError == InitEmitterError /\ [][Next]_vars

SpecKeyword == InitKeyword /\ [][Next]_vars

SpecMalformed == InitMalformed /\ [][Next]_vars

SpecComposition == InitComposition /\ [][Next]_vars

SpecScalar == InitScalar /\ [][Next]_vars

SpecValue == InitValue /\ [][Next]_vars

SpecOrder == InitOrder /\ [][Next]_vars

(***************************************************************************)
(* Vocabulary of the properties                                            *)
(***************************************************************************)
\* xHI + xH+ + 2*(x_paraH2 + x_orthoH2) of a cloud
HydrogenTotal(c) ==
    c.f["comp.xHI"] + c.f["comp.xHplus"] + 2 * c.f["comp.xpH2"] + 2 * c.f["comp.xoH2"]

\* the error a line raises, NoErr if the parser accepts it
ErrOf(line) == LineStep(EmptyCloud(FALSE), line, FALSE).err

Fails(line) == ErrOf(line) # NoErr

\* index of the first failing line of a descriptor, 0 if there is none
FirstFail(d) ==
    IF \E k \in 1..Len(d) : Fails(d[k])
    THEN SetMin({k \in 1..Len(d) : Fails(d[k])})
    ELSE 0

\* the cloud of this call as it was when read was entered
StartCloud == EmptyCloud(self.noWarn)

\* the cloud after the first n lines, none of which fails
AfterLines(n) == RunLines(StartCloud, SubSeq(desc, 1, n), verbose).cloud

Opened == pc \notin {"idle", "open"} /\ err.msg # MsgOpen

Ended == pc \in {"done", "failed"}

\* a blank line, or a line whose first non-space character is '#'
NoOpLine(line) ==
    \/ line = <<"\n">>
    \/ LET body == {k \in 1..Len(line) : line[k] # " "}
       IN body # {} /\ line[SetMin(body)] = "#"

StripNoOps(d) == SelectSeq(d, LAMBDA line : ~NoOpLine(line))

(***************************************************************************)
(* C1 - C5                                                                 *)
(***************************************************************************)
\* C1: in a construct-and-ingest call (Cloud::new with a file name) that has
\* consumed every line, if the cloud's xHI + xH+ + 2*(xpH2 + xoH2) differs
\* from 1 then the call goes nowhere but to the hydrogen error: the derived
\* computations are not reached, the error raised is the total-hydrogen
\* error, and the caller holds no cloud.
C1_HydrogenViolationFails ==
    (entry = "new" /\ Opened /\ i > Len(desc) /\ HydrogenTotal(self) # 100)
        => /\ pc \in {"line", "raise", "failed"}
           /\ pc # "line" => err.msg = MsgHydrogen
           /\ held = <<>>
           /\ self.derived = NoDerived

C1_Witness ==
    /\ entry = "new" /\ pc = "failed" /\ err.msg = MsgHydrogen
    /\ HydrogenTotal(self) = 50 /\ Len(desc) = MaxLines

\* C2: a call on a descriptor all of whose lines the parser accepts, and
\* whose final abundances sum to 1, ends successfully; the cloud handed to
\* the caller has mu, muH and qIon computed, and cv computed exactly when
\* the final Tg is > 0.
C2_ValidDescriptorSucceeds ==
    (Ended /\ Opened /\ FirstFail(desc) = 0 /\ HydrogenTotal(self) = 100)
        => /\ pc = "done" /\ err = NoErr
           /\ held = <<self>>
           /\ self.derived.mu /\ self.derived.muH /\ self.derived.qIon
           /\ self.derived.cv <=> (self.f["Tg"] > 0)

C2_Witness ==
    /\ pc = "done" /\ self.f["Tg"] > 0 /\ self.derived.cv /\ self.derived.mu

C2_WitnessNoCv ==
    /\ pc = "done" /\ self.f["Tg"] = 0 /\ ~self.derived.cv /\ self.derived.mu
    /\ \E k \in 1..Len(desc) : Strip(Upper(Split(desc[k], "=")[1])) = <<"T", "G">>

\* C3: when line k is the first failing line of the descriptor, the call
\* never consumes a line after k, never invokes the hydrogen check or a
\* derived computation, and once the error is raised the call is at line k
\* with the error of line k and a cloud that carries the lines before k only.
C3_ErrorAbortsAtLine ==
    (Opened /\ FirstFail(desc) # 0)
        => /\ i <= FirstFail(desc)
           /\ calls = <<>>
           /\ pc \in {"line", "raise", "failed"}
           /\ pc # "line"
                => /\ i = FirstFail(desc)
                   /\ err = ErrOf(desc[i])
                   /\ self = AfterLines(i - 1)

\* the failing line is followed by a directive that would change the cloud
C3_Witness ==
    /\ pc = "failed" /\ i < Len(desc) /\ Fails(desc[i])
    /\ ~Fails(desc[i + 1])
    /\ LineStep(self, desc[i + 1], verbose).cloud # self

\* C4 as claimed: after a failed ingestion the caller holds no cloud that
\* carries assignments or registrations of the lines before the failure.
C4_NoPartialState ==
    pc = "failed" => (held = <<>> \/ held[1] = EmptyCloud(held[1].noWarn))

\* C4 as amended: a failed construct-and-ingest leaves the caller with no
\* cloud; a failed read on a cloud the caller holds leaves that cloud with
\* exactly the effect of the lines processed before the failure.
C4_PartialStateOnlyInPlace ==
    pc = "failed"
        => /\ entry = "new" => held = <<>>
           /\ entry = "read" => (held = <<self>> /\ self = AfterLines(i - 1))

C4_Witness ==
    /\ pc = "failed" /\ entry = "new" /\ held = <<>>
    /\ self # StartCloud /\ i > 1

C4_WitnessInPlace ==
    /\ pc = "failed" /\ entry = "read" /\ held = <<self>>
    /\ self # StartCloud /\ i > 1

\* C5: a call ends with the outcome (success, or the same error) and the
\* cloud that reading the descriptor with its blank and comment lines
\* removed produces.
C5_BlankAndCommentAreNoOps ==
    (Ended /\ Opened)
        => LET r == Ingest(StartCloud, StripNoOps(desc), verbose)
           IN self = r.cloud /\ err = r.err

\* a successful call whose descriptor has an indented comment and a directive
C5_Witness ==
    /\ pc = "done"
    /\ \E k \in 1..Len(desc) : NoOpLine(desc[k]) /\ desc[k][1] = " "
    /\ StripNoOps(desc) # <<>>

(***************************************************************************)
(* Vocabulary of the properties about directive lines                      *)
(***************************************************************************)
\* line k of the descriptor has been handled by the loop: applied, or
\* refused with the error the call has raised
Processed(k) ==
    /\ Opened /\ k \in 1..Len(desc)
    /\ k < i \/ (k = i /\ pc \in {"raise", "failed"})

\* line k was refused: the call raised its error at line k
Refused(k) == k = i /\ pc \in {"raise", "failed"} /\ k <= Len(desc)

\* a line that is neither blank nor a comment and has a '=' with text after it
IsDirective(line) ==
    /\ ~NoOpLine(line)
    /\ Strip(line) # <<>>
    /\ Len(Split(line, "=")) >= 2
    /\ Split(line, "=")[2] # <<>>

\* the text before the first '='
RawKey(line) == Split(line, "=")[1]

\* the key as matched: trimmed and upper-cased
DirectiveKey(line) == Strip(Upper(RawKey(line)))

\* the value the keyword's handler receives
DirectiveValue(line) == Split(Split(line, "=")[2], "#")[1]

IsEmitterLine(line) == IsDirective(line) /\ DirectiveKey(line) = <<"E", "M", "I", "T", "T", "E", "R">>

EmitterTokens(line) == SplitWs(DirectiveValue(line))

\* the option tokens: those after the first two
OptionTokens(line) == SubSeq(EmitterTokens(line), 3, Len(EmitterTokens(line)))

HasPrefix(s, p) == Len(s) >= Len(p) /\ SubSeq(s, 1, Len(p)) = p

IsEnergySkip(t) == Upper(t) = <<"E", "N", "E", "R", "G", "Y", "S", "K", "I", "P">>

IsExtrapolate(t) == Upper(t) = <<"E", "X", "T", "R", "A", "P", "O", "L", "A", "T", "E">>

IsNoExtrap(t) == Upper(t) = <<"N", "O", "E", "X", "T", "R", "A", "P">>

IsFileToken(t) == HasPrefix(Upper(t), <<"F", "I", "L", "E", ":">>)

IsUrlToken(t) == HasPrefix(Upper(t), <<"U", "R", "L", ":">>)

RecognizedOption(t) ==
    IsEnergySkip(t) \/ IsExtrapolate(t) \/ IsNoExtrap(t) \/ IsFileToken(t) \/ IsUrlToken(t)

FilePayload(t) == SubSeq(t, 6, Len(t))

UrlPayload(t) == SubSeq(t, 5, Len(t))

\* the emitters a line registers when it is the only line read
DeclaredAlone(line) == LineStep(EmptyCloud(FALSE), line, FALSE).cloud.emitters

\* the 26 keywords of the dispatch table
Keywords26 ==
    {
     <<"N", "H">>,
     <<"C", "O", "L", "D", "E", "N">>,
     <<"S", "I", "G", "M", "A", "N", "T">>,
     <<"D", "V", "D", "R">>,
     <<"T", "G">>,
     <<"T", "D">>,
     <<"A", "L", "P", "H", "A", "G", "D">>,
     <<"S", "I", "G", "M", "A", "D", "1", "0">>,
     <<"S", "I", "G", "M", "A", "D", "P", "E">>,
     <<"S", "I", "G", "M", "A", "D", "I", "S", "R", "F">>,
     <<"Z", "D", "U", "S", "T">>,
     <<"B", "E", "T", "A", "D", "U", "S", "T">>,
     <<"X", "H", "I">>,
     <<"X", "P", "H", "2">>,
     <<"X", "O", "H", "2">>,
     <<"H", "2", "O", "P", "R">>,
     <<"X", "H", "2">>,
     <<"X", "H", "E">>,
     <<"X", "E">>,
     <<"X", "H", "+">>,
     <<"T", "C", "M", "B">>,
     <<"T", "R", "A", "D", "D", "U", "S", "T">>,
     <<"R", "A", "D", "D", "U", "T", "D", "I", "L", "U", "T", "I", "O", "N">>,
     <<"I", "O", "N", "R", "A", "T", "E">>,
     <<"C", "H", "I">>,
     <<"E", "M", "I", "T", "T", "E", "R">>
    }

(***************************************************************************)
(* C6                                                                      *)
(***************************************************************************)
\* C6: between two lines of the loop, and in the cloud a successful call
\* hands over, the emitters mapping has one entry for each species name
\* declared by one of the lines applied so far and no other, and the entry of
\* a name equals the entry its latest declaring line registers when that line
\* is read alone into an empty cloud.
C6_EmitterLastWriteWins ==
    (pc = "line" \/ (pc = "done" /\ held = <<self>>)) =>
        LET n == i - 1
            declaring(name) == {k \in 1..n : name \in DOMAIN DeclaredAlone(desc[k])}
        IN /\ DOMAIN self.emitters = UNION {DOMAIN DeclaredAlone(desc[k]) : k \in 1..n}
           /\ \A name \in DOMAIN self.emitters :
                self.emitters[name] = DeclaredAlone(desc[SetMax(declaring(name))])[name]

\* a species declared with options and declared again without them
C6_Witness ==
    /\ pc = "line" /\ i = 3 /\ Len(desc) = 2
    /\ DOMAIN DeclaredAlone(desc[1]) = DOMAIN DeclaredAlone(desc[2])
    /\ \E name \in DOMAIN self.emitters :
         /\ DeclaredAlone(desc[1])[name].energySkip
         /\ DeclaredAlone(desc[1])[name].emitterFile.present
         /\ ~self.emitters[name].energySkip
         /\ ~self.emitters[name].emitterFile.present

(***************************************************************************)
(* C7                                                                      *)
(***************************************************************************)
Perms(n) == {p \in [1..n -> 1..n] : \A a, b \in 1..n : a # b => p[a] # p[b]}

Permuted(s, p) == [k \in 1..Len(s) |-> s[p[k]]]

RECURSIVE JoinWs(_)
JoinWs(tokens) ==
    IF tokens = <<>> THEN <<>> ELSE <<" ">> \o Head(tokens) \o JoinWs(Tail(tokens))

\* the entry an EMITTER value made of these tokens registers for its species
RegisteredFrom(tokens) ==
    EmitterStep(EmptyCloud(FALSE), JoinWs(tokens), <<>>, FALSE).cloud.emitters[tokens[1]]

\* the loop has just applied an EMITTER line of recognized options
EmitterJustApplied ==
    /\ pc = "line" /\ i > 1
    /\ IsEmitterLine(desc[i - 1])
    /\ Len(EmitterTokens(desc[i - 1])) \in 2..6
    /\ \A j \in 1..Len(OptionTokens(desc[i - 1])) :
         RecognizedOption(OptionTokens(desc[i - 1])[j])

\* name, abundance and the two flags of the entry, from the tokens
FlagsAsDeclared(e, toks, opts) ==
    /\ e.name = toks[1]
    /\ e.abundance = Float(toks[2])
    /\ e.energySkip <=> \E j \in 1..Len(opts) : IsEnergySkip(opts[j])
    /\ e.extrap <=> ~\E j \in 1..Len(opts) : IsNoExtrap(opts[j])

\* p keeps the tokens selected by Is in their relative order
KeepsOrderOf(p, opts, Is(_)) ==
    \A a, b \in 1..Len(opts) :
        (a < b /\ Is(opts[p[a]]) /\ Is(opts[p[b]])) => p[a] < p[b]

\* C7 as claimed: the entry registered by an EMITTER line has the name, the
\* abundance and the flags of its tokens, dataFile and dataURL are the
\* payload of a FILE: and of a URL: token or absent, and every reordering of
\* the option tokens registers the same entry.
C7_EmitterOptionsAnyOrder ==
    EmitterJustApplied =>
        LET toks == EmitterTokens(desc[i - 1])
            opts == OptionTokens(desc[i - 1])
            e == self.emitters[toks[1]]
            files == {j \in 1..Len(opts) : IsFileToken(opts[j])}
            urls == {j \in 1..Len(opts) : IsUrlToken(opts[j])}
        IN /\ FlagsAsDeclared(e, toks, opts)
           /\ e.emitterFile.present <=> files # {}
           /\ files # {} => \E j \in files : e.emitterFile.val = FilePayload(opts[j])
           /\ e.emitterURL.present <=> urls # {}
           /\ urls # {} => \E j \in urls : e.emitterURL.val = UrlPayload(opts[j])
           /\ \A p \in Perms(Len(opts)) :
                RegisteredFrom(<<toks[1], toks[2]>> \o Permuted(opts, p)) = e

\* C7 as amended: as claimed, except that dataFile is the payload of the
\* last FILE: token and dataURL the payload of the last URL: token, and the
\* reorderings that register the same entry are those that keep the FILE:
\* tokens in their relative order and the URL: tokens in theirs.
C7_EmitterOptionsLastPayload ==
    EmitterJustApplied =>
        LET toks == EmitterTokens(desc[i - 1])
            opts == OptionTokens(desc[i - 1])
            e == self.emitters[toks[1]]
            files == {j \in 1..Len(opts) : IsFileToken(opts[j])}
            urls == {j \in 1..Len(opts) : IsUrlToken(opts[j])}
        IN /\ FlagsAsDeclared(e, toks, opts)
           /\ e.emitterFile.present <=> files # {}
           /\ files # {} => e.emitterFile.val = FilePayload(opts[SetMax(files)])
           /\ e.emitterURL.present <=> urls # {}
           /\ urls # {} => e.emitterURL.val = UrlPayload(opts[SetMax(urls)])
           /\ \A p \in Perms(Len(opts)) :
                (KeepsOrderOf(p, opts, IsFileToken) /\ KeepsOrderOf(p, opts, IsUrlToken))
                    => RegisteredFrom(<<toks[1], toks[2]>> \o Permuted(opts, p)) = e

\* a six-token line with options in mixed case has been applied
C7_Witness ==
    /\ EmitterJustApplied
    /\ Len(EmitterTokens(desc[i - 1])) = 6
    /\ LET e == self.emitters[EmitterTokens(desc[i - 1])[1]]
       IN /\ e.energySkip /\ ~e.extrap
          /\ e.emitterFile = [present |-> TRUE, val |-> <<"a">>]
          /\ e.emitterURL = [present |-> TRUE, val |-> <<"u">>]

\* EXTRAPOLATE after NOEXTRAP has been applied and extrapolation stays off
C7_WitnessExtrapolate ==
    /\ EmitterJustApplied
    /\ LET opts == OptionTokens(desc[i - 1])
       IN /\ Len(opts) = 2 /\ IsNoExtrap(opts[1]) /\ IsExtrapolate(opts[2])
          /\ ~self.emitters[EmitterTokens(desc[i - 1])[1]].extrap

(***************************************************************************)
(* C8 - C10                                                                *)
(***************************************************************************)
\* C8: an EMITTER line whose value has fewer than 2 or more than 6 tokens is
\* refused with the "Error parsing input line" error naming the line, and
\* the emitters mapping is as the lines before it left it; an EMITTER line
\* of 2 to 6 tokens is never refused with that error.
C8_EmitterTokenCount ==
    \A k \in 1..Len(desc) :
        (Processed(k) /\ IsEmitterLine(desc[k]))
            => IF Len(EmitterTokens(desc[k])) \notin 2..6
               THEN /\ Refused(k)
                    /\ err.msg = MsgParseLine /\ err.arg = desc[k]
                    /\ self.emitters = AfterLines(k - 1).emitters
               ELSE Refused(k) => err.msg # MsgParseLine

\* a line of seven tokens, every option recognized, refused after an emitter
\* had been registered
C8_Witness ==
    /\ Refused(i) /\ i = 2 /\ IsEmitterLine(desc[i])
    /\ Len(EmitterTokens(desc[i])) = 7
    /\ \A j \in 1..5 : RecognizedOption(OptionTokens(desc[i])[j])
    /\ self.emitters # <<>>

C8_WitnessOneToken ==
    /\ Refused(i) /\ IsEmitterLine(desc[i]) /\ Len(EmitterTokens(desc[i])) = 1

\* C9: an EMITTER line of 3 to 6 tokens with an option token that is none of
\* ENERGYSKIP, EXTRAPOLATE, NOEXTRAP, FILE:..., URL:... is refused with the
\* unrecognized-token error naming the first such token, and the emitters
\* mapping is as the lines before it left it.
C9_UnrecognizedEmitterOption ==
    \A k \in 1..Len(desc) :
        LET opts == OptionTokens(desc[k])
            unknown == {j \in 1..Len(opts) : ~RecognizedOption(opts[j])}
        IN (/\ Processed(k) /\ IsEmitterLine(desc[k])
            /\ Len(EmitterTokens(desc[k])) \in 3..6
            /\ unknown # {})
            => /\ Refused(k)
               /\ err.msg = MsgEmitterToken
               /\ err.arg = opts[SetMin(unknown)]
               /\ self.emitters = AfterLines(k - 1).emitters

\* the species was registered by line 1; line 2 declares it again with a valid
\* option followed by an unrecognized one
C9_Witness ==
    /\ Refused(i) /\ i = 2 /\ IsEmitterLine(desc[2])
    /\ err.msg = MsgEmitterToken
    /\ IsEnergySkip(OptionTokens(desc[2])[1])
    /\ EmitterTokens(desc[2])[1] \in DOMAIN self.emitters
    /\ ~self.emitters[EmitterTokens(desc[2])[1]].energySkip

\* C10: the dispatch table has the 26 keywords; a directive line whose key,
\* trimmed and upper-cased, is none of them is refused with the
\* unrecognized-keyword error naming the trimmed key, and the cloud is as the
\* lines before it left it.
C10_UnrecognizedKeyword ==
    /\ Cardinality(Keywords26) = 26
    /\ {ScalarKeywords[k].kw : k \in 1..Len(ScalarKeywords)} \cup {KwEmitter} = Keywords26
    /\ \A k \in 1..Len(desc) :
         (Processed(k) /\ IsDirective(desc[k]) /\ DirectiveKey(desc[k]) \notin Keywords26)
            => /\ Refused(k)
               /\ err.msg = MsgKeyword
               /\ err.arg = Strip(RawKey(desc[k]))
               /\ self = AfterLines(k - 1)

\* FOO = 3 refused after a line that assigned a field
C10_Witness ==
    /\ Refused(i) /\ i = 2
    /\ err = [msg |-> MsgKeyword, arg |-> <<"F", "O", "O">>, site |-> 384]
    /\ self # StartCloud

(***************************************************************************)
(* C11 - C20                                                               *)
(***************************************************************************)
HasEquals(line) == \E k \in 1..Len(line) : line[k] = "="

\* the text after the first '='
AfterFirstEquals(line) ==
    SubSeq(line, SetMin({k \in 1..Len(line) : line[k] = "="}) + 1, Len(line))

\* a line that is neither blank nor a comment and has no '=', or nothing
\* after its '='
LacksKeyOrValue(line) ==
    /\ ~NoOpLine(line)
    /\ ~HasEquals(line) \/ AfterFirstEquals(line) = <<>>

\* C11: every line the loop handles that is neither a bare line terminator
\* nor a comment and that has no '=' (a line of spaces included), or has
\* nothing after its '=', is refused with the parse-line error, and the
\* error names that line.
C11_MalformedLine ==
    \A k \in 1..Len(desc) :
        (Processed(k) /\ LacksKeyOrValue(desc[k]))
            => /\ Refused(k)
               /\ err.msg = MsgParseLine
               /\ err.arg = desc[k]

\* C12: a call with one value of verbose follows the path, and ends in the
\* outcome and the cloud, of the call on the same descriptor with the other
\* value: between two lines its cloud is the cloud the other call has there,
\* and at its end its error (kind, text and raising line) and its cloud are
\* those of the other call.
C12_VerboseObservational ==
    /\ (Opened /\ pc = "line")
           => ~Aborts(RunLines(StartCloud, SubSeq(desc, 1, i - 1), ~verbose).err)
              /\ self = RunLines(StartCloud, SubSeq(desc, 1, i - 1), ~verbose).cloud
    /\ (Opened /\ Ended)
           => LET r == Ingest(StartCloud, desc, ~verbose)
              IN self = r.cloud /\ err = r.err

\* a successful verbose call that printed messages the silent call does not
C12_Witness ==
    /\ pc = "done" /\ verbose /\ self.derived.cv
    /\ Len(out) > Len(Ingest(StartCloud, desc, FALSE).out)

\* a verbose call that failed at its second line
C12_WitnessFailed ==
    /\ pc = "failed" /\ verbose /\ i = 2 /\ out # <<>>

KwXH2 == <<"X", "H", "2">>

KwH2OPR == <<"H", "2", "O", "P", "R">>

\* the advisory of the defaulted ortho/para ratio
RatioAdvisory == "Warning: H2 OPR unspecified, assuming 0.25"

\* the applied XH2 lines that no XH2 or H2OPR line precedes
DefaultingLines ==
    {k \in 1..Len(desc) :
        /\ k < i
        /\ IsDirective(desc[k]) /\ DirectiveKey(desc[k]) = KwXH2
        /\ \A j \in 1..(k - 1) :
             ~(IsDirective(desc[j]) /\ DirectiveKey(desc[j]) \in {KwXH2, KwH2OPR})}

\* C13 as claimed: a call with verbose = false emits no message at all.
C13_AdvisoriesGated ==
    (Opened /\ ~verbose) => out = <<>>

\* C13 as amended: a call with verbose = false emits nothing but the
\* ortho/para advisory, once for the XH2 line that defaulted the ratio; a
\* verbose call emits that advisory for the same line too.
C13_OnlyRatioAdvisoryUngated ==
    Opened
        => /\ ~verbose => out = [k \in 1..Cardinality(DefaultingLines) |-> RatioAdvisory]
           /\ Cardinality({k \in 1..Len(out) : out[k] = RatioAdvisory})
                  = Cardinality(DefaultingLines)

\* a successful silent call whose only message is the advisory
C13_Witness ==
    /\ pc = "done" /\ ~verbose /\ out = <<RatioAdvisory>>
    /\ self.f["comp.H2OPR"] = DefaultH2OPR

\* the H2OPR directives before line k
RatioLinesBefore(k) ==
    {j \in 1..(k - 1) : IsDirective(desc[j]) /\ DirectiveKey(desc[j]) = KwH2OPR}

\* C14: right after an XH2 line is applied the total-H2 fraction is the
\* line's value, and the ortho/para ratio is 0.25 when no H2OPR line
\* precedes it, else the value of the last H2OPR line before it; right after
\* an H2OPR line is applied the ratio is that line's value, also when an
\* earlier XH2 line had defaulted it.
C14_RatioDefault ==
    (pc = "line" /\ i > 1 /\ IsDirective(desc[i - 1]))
        => /\ DirectiveKey(desc[i - 1]) = KwXH2
                => /\ self.f["comp.xH2"] = Float(DirectiveValue(desc[i - 1]))
                   /\ self.f["comp.H2OPR"] =
                          IF RatioLinesBefore(i - 1) = {}
                          THEN 25
                          ELSE Float(DirectiveValue(desc[SetMax(RatioLinesBefore(i - 1))]))
           /\ DirectiveKey(desc[i - 1]) = KwH2OPR
                => self.f["comp.H2OPR"] = Float(DirectiveValue(desc[i - 1]))

\* XH2 after H2OPR = 3: the ratio stays 3
C14_Witness ==
    /\ pc = "line" /\ i = 3
    /\ DirectiveKey(desc[1]) = KwH2OPR /\ DirectiveKey(desc[2]) = KwXH2
    /\ self.f["comp.H2OPR"] = 300 /\ self.f["comp.xH2"] > 0

\* XH2 first: the ratio is defaulted
C14_WitnessDefaulted ==
    /\ pc = "line" /\ i = 2 /\ DirectiveKey(desc[1]) = KwXH2
    /\ self.f["comp.H2OPR"] = 25

\* H2OPR = 3 after XH2: the defaulted ratio is overridden
C14_WitnessOverridden ==
    /\ pc = "line" /\ i = 3
    /\ DirectiveKey(desc[1]) = KwXH2 /\ DirectiveKey(desc[2]) = KwH2OPR
    /\ self.f["comp.H2OPR"] = 300

\* the keywords of the cloud's own scalars and the field each one names
ScalarTargetOf(key) ==
    CASE key = <<"N", "H">> -> "nH"
      [] key = <<"C", "O", "L", "D", "E", "N">> -> "colDen"
      [] key = <<"S", "I", "G", "M", "A", "N", "T">> -> "sigmaNT"
      [] key = <<"D", "V", "D", "R">> -> "dVdr"
      [] key = <<"T", "G">> -> "Tg"
      [] key = <<"T", "D">> -> "Td"
      [] OTHER -> "none"

\* a directive of one of the six scalar keywords with a number as its value
IsCloudScalarLine(line) ==
    /\ IsDirective(line)
    /\ ScalarTargetOf(DirectiveKey(line)) # "none"
    /\ FloatOk(DirectiveValue(line))

\* C15: the loop step that handles a directive of one of the six scalar
\* keywords (NH, COLDEN, SIGMANT, DVDR, TG, TD, in any letter case and with
\* spaces around the key) accepts the line and changes the cloud in exactly
\* one place: the keyword's field becomes the number written, with no
\* conversion (100.0 gives 100.0); every other field, the sub-state fields,
\* the derived flags and the emitters are as before.
C15_ScalarAssignsTarget ==
    [][(pc = "line" /\ i <= Len(desc) /\ IsCloudScalarLine(desc[i]))
          => /\ pc' = "line" /\ i' = i + 1 /\ err' = NoErr
             /\ self' = [self EXCEPT
                           !.f[ScalarTargetOf(DirectiveKey(desc[i]))] =
                               Float(DirectiveValue(desc[i]))]
             /\ DirectiveValue(desc[i]) = <<" ", "1", "0", "0", ".", "0", "\n">>
                  => self'.f[ScalarTargetOf(DirectiveKey(desc[i]))] = 100 * Scale
      ]_vars

\* ` Nh = 0.5` applied after an EMITTER line: nH is 0.5, the emitter is kept
C15_Witness ==
    /\ pc = "line" /\ i = 3
    /\ RawKey(desc[2]) = <<" ", "N", "h", " ">>
    /\ self.f["nH"] = 50 /\ self.emitters # <<>>

\* `NH = 100.0` in a successful call: nH is 100.0
C15_WitnessExact ==
    /\ pc = "done" /\ self.f["nH"] = 100 * Scale /\ self.f["comp.xHI"] = Scale
    /\ \E k \in 1..Len(desc) : RawKey(desc[k]) = <<"N", "H", " ">>

KwXHplus == <<"X", "H", "+">>

\* the directive `XE = v` for the value text v
ElectronLine(v) == <<"X", "E", "=">> \o v

\* C16: the loop step that handles a directive `XH+ = v` with a number v
\* leaves the cloud as the directive `XE = v` would leave it: the electron
\* abundance xe is v and nothing else has changed; the ionized-hydrogen
\* abundance, and so the sum the hydrogen check tests, are as before.
C16_IonizedAliasOfElectron ==
    [][(/\ pc = "line" /\ i <= Len(desc)
        /\ IsDirective(desc[i]) /\ DirectiveKey(desc[i]) = KwXHplus
        /\ FloatOk(DirectiveValue(desc[i])))
          => /\ pc' = "line" /\ err' = NoErr
             /\ self' = [self EXCEPT !.f["comp.xe"] = Float(DirectiveValue(desc[i]))]
             /\ self' = LineStep(self, ElectronLine(DirectiveValue(desc[i])), verbose).cloud
             /\ self'.f["comp.xHplus"] = self.f["comp.xHplus"]
             /\ HydrogenTotal(self') = HydrogenTotal(self)
      ]_vars

\* `XHI = 1` and `XH+ = 1` succeed: the sum is still 1, xe is 1, xH+ is 0
C16_Witness ==
    /\ pc = "done" /\ Len(desc) = 2 /\ DirectiveKey(desc[2]) = KwXHplus
    /\ self.f["comp.xe"] = Scale /\ self.f["comp.xHplus"] = 0
    /\ HydrogenTotal(self) = Scale

\* `XH+ = 1` alone fails the hydrogen check
C16_WitnessAlone ==
    /\ pc = "failed" /\ err.msg = MsgHydrogen
    /\ Len(desc) = 1 /\ DirectiveKey(desc[1]) = KwXHplus
    /\ self.f["comp.xe"] = Scale

\* C17: the cloud that Cloud::new without a file name hands to the caller
\* has nH, colDen, sigmaNT, dVdr, Tg and Td equal to 0, no emitter, no
\* chemical network, and the noWarn flag that was passed; and throughout a
\* call that reads a descriptor, and in the cloud the caller holds after it,
\* the chemical network is still absent and noWarn is still the flag passed.
C17_ConstructionDefaults ==
    /\ (entry = "none" /\ held # <<>>)
           => /\ \A name \in CloudFields : held[1].f[name] = 0
              /\ held[1].emitters = <<>>
              /\ held[1].chemnetwork = "None"
              /\ held[1].noWarn = noWarnArg
    /\ entry \in {"new", "read"}
           => /\ self.chemnetwork = "None" /\ self.noWarn = noWarnArg
              /\ pc = "done"
                   => /\ held # <<>>
                      /\ held[1].chemnetwork = "None"
                      /\ held[1].noWarn = noWarnArg

\* a verbose construct-and-ingest with noWarn = true that changed the cloud
C17_Witness ==
    /\ entry = "new" /\ pc = "done" /\ verbose /\ noWarnArg
    /\ held[1].noWarn /\ held[1].f["comp.xHI"] = Scale

\* construction with no descriptor and noWarn = true
C17_WitnessEmpty ==
    /\ entry = "none" /\ held # <<>> /\ noWarnArg /\ held[1].noWarn

\* the messages printed so far, as a set
Printed == {out[k] : k \in 1..Len(out)}

\* C18: in one call the hydrogen check is the first operation invoked after
\* the loop, it is invoked once, and only when every line has been consumed
\* (and it has been invoked as soon as the call has left the loop with every
\* line consumed); computeDerived is invoked at most once, second, only
\* after a check whose sum was 1, and with the final nH; computeCv is
\* invoked only third, after computeDerived; a derived quantity is computed
\* only by its computation, and a summary line that prints mu, muH, qIon or
\* cv is printed only once that quantity has been computed (the cv line is
\* not printed when Tg <= 0).
C18_PhaseOrder ==
    Opened
        => /\ Len(calls) <= 3
           /\ calls # <<>> => (calls[1].op = "check" /\ i > Len(desc))
           /\ \A k \in 2..Len(calls) : calls[k].op # "check"
           /\ (i > Len(desc) /\ pc # "line") => calls # <<>>
           /\ Len(calls) >= 2
                => /\ calls[2].op = "computeDerived"
                   /\ calls[1].arg = Scale
                   /\ calls[2].arg = self.f["nH"]
                   /\ calls[2].arg = AfterLines(Len(desc)).f["nH"]
           /\ Len(calls) = 3 => (calls[3].op = "computeCv" /\ self.f["Tg"] > 0)
           /\ (self.derived.mu \/ self.derived.muH \/ self.derived.qIon)
                => Len(calls) >= 2
           /\ self.derived.cv => Len(calls) = 3
           /\ "mean mass per particle" \in Printed => self.derived.mu
           /\ "mean mass per H" \in Printed => self.derived.muH
           /\ "energy added per ionization" \in Printed => self.derived.qIon
           /\ "c_v/(k_B n_H mu_H)" \in Printed => self.derived.cv

\* a verbose call with Tg = 0: the summary is printed without the cv line
C18_Witness ==
    /\ pc = "done" /\ verbose /\ self.f["Tg"] = 0
    /\ Len(calls) = 2 /\ ~self.derived.cv
    /\ "mean mass per particle" \in Printed
    /\ "c_v/(k_B n_H mu_H)" \notin Printed

\* a verbose call with Tg > 0: all three operations, the cv line printed
C18_WitnessCv ==
    /\ pc = "done" /\ verbose /\ self.f["Tg"] > 0
    /\ Len(calls) = 3 /\ "c_v/(k_B n_H mu_H)" \in Printed

\* the text after the first '=' of a line, cut at the first '#' in it
ValueAfterFirstEquals(line) ==
    LET rest == AfterFirstEquals(line)
        hashes == {k \in 1..Len(rest) : rest[k] = "#"}
    IN IF hashes = {} THEN rest ELSE SubSeq(rest, 1, SetMin(hashes) - 1)

\* C19: the loop step that handles a line with a '=' and text after it gives
\* the keyword's handler the text after the first '=' cut at the first '#':
\* the cloud and the error after the step are those the handler produces
\* for that text, a later '=' being part of it (so a URL: or FILE: payload
\* with a '=' is registered whole).
C19_ValueExtraction ==
    [][(/\ pc = "line" /\ i <= Len(desc)
        /\ ~NoOpLine(desc[i]) /\ Strip(desc[i]) # <<>>
        /\ HasEquals(desc[i]) /\ AfterFirstEquals(desc[i]) # <<>>)
          => LET r == Dispatch(self, Split(desc[i], "="),
                               ValueAfterFirstEquals(desc[i]), desc[i], verbose)
             IN self' = r.cloud /\ err' = r.err
      ]_vars

KwXE == <<"X", "E">>

\* the descriptor with lines k and k + 1 exchanged
SwapAt(d, k) ==
    [j \in 1..Len(d) |-> IF j = k THEN d[k + 1] ELSE IF j = k + 1 THEN d[k] ELSE d[j]]

\* the species name of an EMITTER line, as written
EmitterName(line) == EmitterTokens(line)[1]

\* two directives with different keywords, or two EMITTER directives with
\* different names
DifferentTargets(a, b) ==
    /\ IsDirective(a) /\ IsDirective(b)
    /\ \/ DirectiveKey(a) # DirectiveKey(b)
       \/ /\ IsEmitterLine(a) /\ IsEmitterLine(b)
          /\ EmitterName(a) # EmitterName(b)

\* XE and XH+, the two keywords that assign the same field
ElectronPair(a, b) ==
    /\ DirectiveKey(a) \in {KwXE, KwXHplus} /\ DirectiveKey(b) \in {KwXE, KwXHplus}
    /\ DirectiveKey(a) # DirectiveKey(b)

\* reading the descriptor with lines k and k + 1 exchanged succeeds with
\* the cloud of this call
SameAfterSwap(k) ==
    LET r == Ingest(StartCloud, SwapAt(desc, k), verbose)
    IN r.err = NoErr /\ r.cloud = self

\* C20 as claimed: after a successful call, exchanging any two adjacent
\* directives with different keywords, or two adjacent EMITTER directives
\* with different names, gives a successful call with the same cloud.
C20_OrderIndependence ==
    pc = "done"
        => \A k \in 1..(Len(desc) - 1) :
               DifferentTargets(desc[k], desc[k + 1]) => SameAfterSwap(k)

\* C20 as amended: the same, except for an XE directive next to an XH+
\* directive; those two assign the same field, and after a successful call
\* that field holds the value of the last XE or XH+ directive.
C20_OrderIndependenceButElectron ==
    pc = "done"
        => /\ \A k \in 1..(Len(desc) - 1) :
                  (DifferentTargets(desc[k], desc[k + 1])
                   /\ ~ElectronPair(desc[k], desc[k + 1]))
                      => SameAfterSwap(k)
           /\ LET writers == {k \in 1..Len(desc) :
                                 IsDirective(desc[k])
                                 /\ DirectiveKey(desc[k]) \in {KwXE, KwXHplus}}
              IN writers # {}
                   => self.f["comp.xe"] = Float(DirectiveValue(desc[SetMax(writers)]))

\* a successful call with XH2 next to H2OPR
C20_Witness ==
    /\ pc = "done" /\ Len(desc) = 3
    /\ DirectiveKey(desc[2]) = KwXH2 /\ DirectiveKey(desc[3]) = KwH2OPR
    /\ self.f["comp.H2OPR"] = 300 /\ self.f["comp.xH2"] = 50

\* a successful call with two EMITTER lines of different names
C20_WitnessEmitters ==
    /\ pc = "done" /\ Len(desc) = 3
    /\ IsEmitterLine(desc[2]) /\ IsEmitterLine(desc[3])
    /\ EmitterName(desc[2]) # EmitterName(desc[3])

\* a successful call with XE next to XH+: the later one wins
C20_WitnessElectron ==
    /\ pc = "done" /\ Len(desc) = 3
    /\ DirectiveKey(desc[2]) = KwXE /\ DirectiveKey(desc[3]) = KwXHplus
    /\ self.f["comp.xe"] = Scale
    /\ ~SameAfterSwap(2)

====
